---- MODULE Spec2Model ----
(***************************************************************************)
(* Model of Once4All.py: the two bulk-ingestion pipelines                  *)
(* (fetchFactBulkData, fetchSubmissionsBulkData), their worker functions   *)
(* (prepareFactData, prepareSubmissionData) and the process entry point.   *)
(*                                                                         *)
(* File names are sequences of tokens ("CIK", a ten-digit block, the       *)
(* "-submissions-" marker, a part number, the extension); str.replace,     *)
(* str.endswith, the CIK regex and the substring test act on the tokens.   *)
(* Documents are parsed JSON values; a payload is a sequence of tokens and *)
(* len(jsonData) is its length.                                            *)
(***************************************************************************)
EXTENDS Integers, Sequences, FiniteSets, TLC

VARIABLES
    dirs,       \* [fact, sub]: file name -> file content, the two source directories
    store,      \* [fact, sub]: cik -> jsonBody, the committed rows of the two tables
    txn,        \* rows written by the open connection and not yet committed
    run,        \* "first" | "second": which execution of the process this is
    pipeline,   \* "fact" | "sub": the pipeline function __main__ is in
    pc,         \* position of the control thread
    ret,        \* value returned by the pipeline function
    tasks,      \* tasks
    totalTasks, \* totalTasks / totalFilesCount
    nextChunk,  \* i of the chunk loop (0-based offset of the next chunk)
    inflight,   \* futures submitted to the pool and not yet consumed (task indices)
    dbBuffer,   \* dbBuffer: sequence of <<cik, jsonData>>
    currentBatchSizeByte,
    gcCounter,
    completedCount,  \* completedCount / completedFilesCount
    skippedCount,
    stats,      \* the seven stats* lists, one sample per element
    lastResult,    \* the tuple the last worker call returned (future.result())
    hist        \* history of the run (observation only, never read by the program)

vars == <<dirs, store, txn, run, pipeline, pc, ret, tasks, totalTasks, nextChunk,
          inflight, dbBuffer, currentBatchSizeByte, gcCounter, completedCount,
          skippedCount, stats, lastResult, hist>>

-----------------------------------------------------------------------------
(* Bounds of the model. The batch and chunk limits are the program's        *)
(* tuning parameters scaled down (1000 / 20000 records, 20000 / 15000       *)
(* tasks, 1500 MB) so that threshold flushes and chunk boundaries happen    *)
(* with a handful of files.                                                 *)
CountLimit == 2
ChunkSize == 2
SizeLimit == 5

None == "None"          \* Python's None in a string-valued slot (error)
NoData == <<>>          \* Python's None in the jsonData slot (a payload is never empty)
NoFile == <<>>          \* Python's None in cikGroups[cik]['main']

batchCountLimit(p) == CountLimit
batchSizeLimit(p) == SizeLimit
TaskChunkSize(p) == ChunkSize
GCINTERVAL(p) == IF p = "fact" THEN 5 ELSE 10

-----------------------------------------------------------------------------
(* Sequences *)

Last(s) == s[Len(s)]

Range(s) == {s[k] : k \in 1..Len(s)}

Perms(S) == {s \in [1..Cardinality(S) -> S] : \A a, b \in 1..Cardinality(S) : s[a] = s[b] => a = b}

\* a set of integers as an ascending sequence
RECURSIVE SortIds(_)
SortIds(S) ==
    IF S = {} THEN <<>>
    ELSE LET m == CHOOSE x \in S : \A y \in S : x <= y IN <<m>> \o SortIds(S \ {m})

RECURSIVE Flatten(_)
Flatten(ss) == IF ss = <<>> THEN <<>> ELSE Head(ss) \o Flatten(Tail(ss))

-----------------------------------------------------------------------------
(* File names *)

EndsWithJson(f) == Len(f) > 0 /\ Last(f) = ".json"

\* str.replace(tok, ""): every occurrence of the token is removed
Replace(f, tok) == SelectSeq(f, LAMBDA x : x # tok)

\* fileName.replace("CIK", "").replace(".json", "")
FactCik(fileName) == Replace(Replace(fileName, "CIK"), ".json")

Digits10 == {"0000000001", "0000000002", "0000000003"}

\* re.compile(r"CIK(\d{10})").match(file): anchored at the start of the name
CikPatternMatch(f) == Len(f) >= 2 /\ f[1] = "CIK" /\ f[2] \in Digits10
CikGroup1(f) == <<f[2]>>

\* "submissions-" in file
HasSubmissionsMarker(f) == \E k \in 1..Len(f) : f[k] = "-submissions-"

TokRank(t) ==
    CASE t = "-submissions-" -> 1      \* '-' sorts before '.' and the digits
      [] t = ".json" -> 2
      [] t = ".txt" -> 3
      [] t = "0000000001" -> 4   \* "0000000001" < "001": the third character decides
      [] t = "0000000002" -> 5
      [] t = "0000000003" -> 6
      [] t = "001" -> 7
      [] t = "002" -> 8
      [] t = "003" -> 9
      [] t = "CIK" -> 10
      [] OTHER -> 11

\* f < g in Python's string order (lexicographic; a proper prefix sorts first)
RECURSIVE NameLess(_, _)
NameLess(f, g) ==
    IF g = <<>> THEN FALSE
    ELSE IF f = <<>> THEN TRUE
    ELSE IF Head(f) = Head(g) THEN NameLess(Tail(f), Tail(g))
    ELSE TokRank(Head(f)) < TokRank(Head(g))

RECURSIVE InsertSorted(_, _)
InsertSorted(f, s) ==
    IF s = <<>> THEN <<f>>
    ELSE IF NameLess(f, Head(s)) THEN <<f>> \o s
    ELSE <<Head(s)>> \o InsertSorted(f, Tail(s))

\* list.sort() on file names
RECURSIVE SortFiles(_)
SortFiles(s) == IF s = <<>> THEN <<>> ELSE InsertSorted(Last(s), SortFiles(SubSeq(s, 1, Len(s) - 1)))

-----------------------------------------------------------------------------
(* Documents.  A file content is [err, decodes, doc, raw]: err is the text   *)
(* of the exception open()/read() raises (None when the read succeeds),     *)
(* decodes tells whether orjson.loads accepts the bytes, doc is the parsed  *)
(* value and raw the bytes.                                                 *)

Truthy(error) == error \notin {None, ""}

\* not jsonData or 'entityName' not in jsonData or 'facts' not in jsonData or not jsonData['facts']
FactInvalidStructure(doc) ==
    \/ DOMAIN doc = {}
    \/ "entityName" \notin DOMAIN doc
    \/ "facts" \notin DOMAIN doc
    \/ doc["facts"] = "empty"

\* prepareFactData(fileName): the tuple (cik, jsonStr, error)
prepareFactData(fileName, content) ==
    LET cik == FactCik(fileName) IN
    IF content.err # None THEN <<cik, NoData, content.err>>
    ELSE IF ~content.decodes THEN <<cik, NoData, "Corrupted JSON">>
    ELSE IF FactInvalidStructure(content.doc) THEN <<cik, NoData, "Invalid JSON Structure">>
    ELSE <<cik, content.raw, None>>

\* A submissions document is [top, filings, recent, items].  For a primary: the set
\* of top-level keys, the set of keys of doc["filings"], and doc["filings"]["recent"]
\* as an ordered dictionary, a sequence of <<field, list>>.  For a chunk: items, the
\* document as an ordered dictionary, a sequence of <<field, isList, value>>.

\* "filings" not in mainData or "recent" not in mainData["filings"]
SubInvalidStructure(doc) == "filings" \notin doc.top \/ "recent" \notin doc.filings

HasField(recent, name) == \E k \in 1..Len(recent) : recent[k][1] = name

\* targetRecent[key].extend(valueList)
Extend(recent, name, items) ==
    [k \in 1..Len(recent) |->
        IF recent[k][1] = name THEN <<name, recent[k][2] \o items>> ELSE recent[k]]

\* the merge without the isinstance test
RECURSIVE MergeChunkAnyValue(_, _)
MergeChunkAnyValue(recent, chunkDoc) ==
    IF chunkDoc = <<>> THEN recent
    ELSE LET e == Head(chunkDoc) IN
         MergeChunkAnyValue(IF HasField(recent, e[1]) THEN Extend(recent, e[1], e[3]) ELSE recent,
                            Tail(chunkDoc))

\* for key, valueList in chunkData.items(): if key in targetRecent and isinstance(valueList, list)
RECURSIVE MergeChunk(_, _)
MergeChunk(recent, chunkDoc) ==
    IF chunkDoc = <<>> THEN recent
    ELSE LET e == Head(chunkDoc) IN
         MergeChunk(IF HasField(recent, e[1]) /\ e[2] THEN Extend(recent, e[1], e[3]) ELSE recent,
                    Tail(chunkDoc))

ChunkFails(c) == c.err # None \/ ~c.decodes
ChunkError(c) == IF c.err # None THEN c.err ELSE "JSONDecodeError"

\* orjson.dumps(mainData).decode('utf-8'): the document around filings.recent is
\* the token "{", so the string is never empty
Dumps(doc, recent) ==
    <<"{">> \o Flatten([k \in 1..Len(recent) |-> <<recent[k][1]>> \o recent[k][2] \o <<";">>])

\* the chunk files taken in the order the task lists them
ListedOrder(chunkFiles) == chunkFiles

\* chunkFiles.sort()
SortedChunks(chunkFiles) == SortFiles(chunkFiles)

\* the loop over the sorted chunk files: <<recent, error, filesProcessed>>
RECURSIVE MergeChunks(_, _, _, _)
MergeChunks(recent, chunkFiles, dir, filesProcessed) ==
    IF chunkFiles = <<>> THEN <<recent, None, filesProcessed>>
    ELSE LET c == dir[Head(chunkFiles)] IN
         IF ChunkFails(c) THEN <<recent, ChunkError(c), filesProcessed + 1>>
         ELSE MergeChunks(MergeChunk(recent, c.doc.items), Tail(chunkFiles), dir, filesProcessed + 1)

\* prepareSubmissionData(cik, fileInfo): the tuple the worker returns
prepareSubmissionData(cik, fileInfo, dir) ==
    LET main == dir[fileInfo.main] IN
    IF main.err # None THEN <<cik, NoData, main.err, 1>>
    ELSE IF ~main.decodes THEN <<cik, NoData, "JSONDecodeError", 1>>
    ELSE IF SubInvalidStructure(main.doc) THEN <<cik, NoData, "Invalid structure">>
    ELSE LET m == MergeChunks(main.doc.recent, SortedChunks(fileInfo.chunks), dir, 1) IN
         IF m[2] # None THEN <<cik, NoData, m[2], m[3]>>
         ELSE <<cik, Dumps(main.doc, m[1]), None, m[3]>>

-----------------------------------------------------------------------------
(* The target store.  A table is a function cik -> jsonBody; the connection  *)
(* holds the rows it has written and not yet committed.                     *)

EmptyRows == <<>>

\* the connection left in autocommit mode: every MERGE is committed as it runs
autocommitOn == TRUE

\* conn.autocommit = False
autocommit == FALSE

\* one MERGE: UPDATE the row when the cik is matched, INSERT it otherwise
Upsert(rows, rec) == [k \in DOMAIN rows \cup {rec[1]} |-> IF k = rec[1] THEN rec[2] ELSE rows[k]]

\* executemany running the statement for the last parameter row only
UpsertLast(rows, batch) == IF batch = <<>> THEN rows ELSE Upsert(rows, batch[Len(batch)])

\* cur.executemany(sqlBulkMerge, batch): one MERGE per record, in order
RECURSIVE UpsertAll(_, _)
UpsertAll(rows, batch) ==
    IF batch = <<>> THEN rows ELSE UpsertAll(Upsert(rows, Head(batch)), Tail(batch))

\* the table as the connection sees it: its own uncommitted rows over the committed ones
Overlay(committed, pending) ==
    [k \in DOMAIN committed \cup DOMAIN pending |->
        IF k \in DOMAIN pending THEN pending[k] ELSE committed[k]]

\* What a commit attempt can do: succeed, or raise after executemany has run
\* `rows` of the MERGE statements (rows = Len(batch): conn.commit() raised).
CommitOutcomes(batch) ==
    {[ok |-> TRUE, rows |-> Len(batch)]} \cup {[ok |-> FALSE, rows |-> n] : n \in 0..Len(batch)}

\* cur.executemany(sqlBulkMerge, dbBuffer); conn.commit()   -> [committed, pending]
CommitAttempt(committed, pending, batch, outcome) ==
    LET written == SubSeq(batch, 1, outcome.rows)
        c1 == IF autocommit THEN UpsertAll(committed, written) ELSE committed
        p1 == IF autocommit THEN pending ELSE UpsertAll(pending, written)
    IN  IF outcome.ok
        THEN [committed |-> Overlay(c1, p1), pending |-> EmptyRows]
        ELSE [committed |-> c1, pending |-> p1]

\* conn.rollback(), and conn.close() with a transaction open
Rollback(db) == [committed |-> db.committed, pending |-> EmptyRows]

-----------------------------------------------------------------------------
(* Planning *)

\* tasks of fetchFactBulkData: the .json files whose cik is not in completeCiks
FactTasks(listing, completeCiks) ==
    SelectSeq(SelectSeq(listing, EndsWithJson), LAMBDA f : FactCik(f) \notin completeCiks)

GroupIndex(groups, cik) == CHOOSE k \in 1..Len(groups) : groups[k].cik = cik

\* one iteration of the grouping loop
GroupFile(groups, file) ==
    IF ~CikPatternMatch(file) THEN groups
    ELSE LET cik == CikGroup1(file)
             g1 == IF \E k \in 1..Len(groups) : groups[k].cik = cik THEN groups
                   ELSE Append(groups, [cik |-> cik, main |-> NoFile, chunks |-> <<>>])
             k == GroupIndex(g1, cik)
         IN  IF HasSubmissionsMarker(file)
             THEN [g1 EXCEPT ![k].chunks = Append(@, file)]
             ELSE [g1 EXCEPT ![k].main = file]

\* cikGroups, in insertion order
RECURSIVE CikGroups(_, _)
CikGroups(groups, files) ==
    IF files = <<>> THEN groups ELSE CikGroups(GroupFile(groups, Head(files)), Tail(files))

\* tasks of fetchSubmissionsBulkData: (cik, info, fileCountInTask)
SubTasks(listing, completeCik) ==
    LET groups == CikGroups(<<>>, SelectSeq(listing, EndsWithJson))
        kept == SelectSeq(groups, LAMBDA g : g.cik \notin completeCik /\ g.main # NoFile)
    IN  [k \in 1..Len(kept) |-> [cik |-> kept[k].cik,
                                 main |-> kept[k].main,
                                 chunks |-> kept[k].chunks,
                                 n |-> 1 + Len(kept[k].chunks)]]

RECURSIVE SumFiles(_)
SumFiles(ts) == IF ts = <<>> THEN 0 ELSE Head(ts).n + SumFiles(Tail(ts))

PlanTasks(p, listing, completeCiks) ==
    IF p = "fact" THEN FactTasks(listing, completeCiks) ELSE SubTasks(listing, completeCiks)

\* totalTasks (facts) / totalFilesCount (submissions): what is tested against 0
\* and returned
PlanTotal(p, ts) == IF p = "fact" THEN Len(ts) ELSE SumFiles(ts)

\* os.listdir returns the names in an arbitrary order: every order of them
RECURSIVE SortNames(_)
SortNames(S) ==
    IF S = {} THEN <<>>
    ELSE LET m == CHOOSE x \in S : \A y \in S \ {x} : NameLess(x, y)
         IN  <<m>> \o SortNames(S \ {m})
Listings(dir) == Perms(DOMAIN dir)

-----------------------------------------------------------------------------
(* The source directories the runs are checked on *)

File(err, decodes, doc, raw) == [err |-> err, decodes |-> decodes, doc |-> doc, raw |-> raw]

EmptyDict == [k \in {} |-> "full"]
FactDoc == ("entityName" :> "full" @@ "facts" :> "full")
FactOk == File(None, TRUE, FactDoc, <<"entityName", "facts">>)
FactBig == File(None, TRUE, FactDoc, <<"entityName", "facts", "a", "b", "c">>)
FactCorrupt == File(None, FALSE, EmptyDict, <<"{">>)
FactNoFacts == File(None, TRUE, ("entityName" :> "full"), <<"entityName">>)
FactEmptyFacts == File(None, TRUE, ("entityName" :> "full" @@ "facts" :> "empty"),
                       <<"entityName", "facts{}">>)
FactRaisesEmpty == File("", FALSE, EmptyDict, <<>>)      \* an exception whose str() is empty

FA == <<"CIK", "0000000001", ".json">>
FB == <<"CIK", "0000000002", ".json">>
FC == <<"CIK", "0000000003", ".json">>
FD == <<"0000000001", ".json">>                     \* the same cik as FA

SubDoc(top, filings, recent) == [top |-> top, filings |-> filings, recent |-> recent, items |-> <<>>]
ChunkDoc(items) == [top |-> {}, filings |-> {}, recent |-> <<>>, items |-> items]
SubOk == File(None, TRUE, SubDoc({"cik", "filings"}, {"recent", "files"}, <<<<"form", <<"a">>>>>>), <<>>)
SubEmptyRecent == File(None, TRUE, SubDoc({"cik", "filings"}, {"recent"}, <<>>), <<>>)
SubNoFilings == File(None, TRUE, SubDoc({"cik"}, {}, <<>>), <<>>)
SubNoRecent == File(None, TRUE, SubDoc({"cik", "filings"}, {"files"}, <<>>), <<>>)
SubCorrupt == File(None, FALSE, SubDoc({}, {}, <<>>), <<>>)
ChunkB == File(None, TRUE, ChunkDoc(<<<<"form", TRUE, <<"b">>>>>>), <<>>)
ChunkC == File(None, TRUE, ChunkDoc(<<<<"form", TRUE, <<"c">>>>>>), <<>>)
ChunkCorrupt == File(None, FALSE, ChunkDoc(<<>>), <<>>)

SA == <<"CIK", "0000000001", ".json">>
SA1 == <<"CIK", "0000000001", "-submissions-", "001", ".json">>
SA2 == <<"CIK", "0000000001", "-submissions-", "002", ".json">>
SB == <<"CIK", "0000000002", ".json">>
SC == <<"CIK", "0000000003", ".json">>

\* every directory that holds, for each name of `choices`, no file or one with
\* one of the contents given for it
Dirs(choices) ==
    UNION {[names -> UNION {choices[n] : n \in names}] : names \in SUBSET DOMAIN choices}

DirsOf(choices) == {d \in Dirs(choices) : \A n \in DOMAIN d : d[n] \in choices[n]}

FactDirs ==
    DirsOf(FA :> {FactOk, FactBig, FactCorrupt} @@ FB :> {FactOk, FactBig, FactNoFacts}
           @@ FC :> {FactOk, FactBig, FactEmptyFacts, FactRaisesEmpty} @@ FD :> {FactOk})

SubDirs ==
    DirsOf(SA :> {SubOk, SubNoFilings, SubCorrupt} @@ SA1 :> {ChunkB, ChunkCorrupt}
           @@ SA2 :> {ChunkC} @@ SB :> {SubOk} @@ SC :> {SubOk, SubEmptyRecent})

\* the directory of the other pipeline: an unparseable fact file (the fact run
\* skips it and returns), no submissions file
OtherFactDir == (FA :> FactCorrupt)
OtherSubDir == EmptyRows

OldBody == <<"old">>
Stores == {EmptyRows, (<<"0000000001">> :> OldBody)}

\* the environments: one pipeline has a directory of several files
Environments ==
    {[dirs |-> [fact |-> f, sub |-> OtherSubDir], store |-> [fact |-> t, sub |-> EmptyRows]] :
        f \in FactDirs, t \in Stores}
    \cup
    {[dirs |-> [fact |-> OtherFactDir, sub |-> s], store |-> [fact |-> EmptyRows, sub |-> t]] :
        s \in SubDirs, t \in Stores}

-----------------------------------------------------------------------------
(* The run *)

NoCrash == [cause |-> "none", task |-> 0]
NoRun == [seen |-> FALSE, clean |-> FALSE, planned |-> 0, store |-> EmptyRows]

HistInit(first) ==
    [offered |-> <<>>,      \* the successful records, in the order they were appended
     attempts |-> <<>>,     \* the commit attempts: [kind, ok, batch, upto, left, wrote]
     lastRows |-> 0,        \* the MERGE statements the last attempt ran before it ended
     consumed |-> {},       \* the tasks whose lastResult the loop has taken
     drained |-> 0,         \* Len(offered) when the buffer was last cleared
     sizeHit |-> FALSE,     \* isSizeLimit has been true
     planDb |-> "none",     \* how the existing-keys read of this run ended
     before |-> EmptyRows,  \* the table when the run was planned
     submitted |-> <<>>,    \* the tasks handed to executor.submit, in order
     gc |-> <<>>,           \* per successful threshold flush, whether gc.collect() ran
     crash |-> NoCrash,     \* the uncaught exception, if any
     first |-> first]       \* per pipeline, how its run in the first execution ended

NoReturn == [none |-> TRUE, stats |-> <<>>, total |-> 0]

Init ==
    /\ \E e \in Environments : dirs = e.dirs /\ store = e.store
    /\ txn = EmptyRows
    /\ run = "first"
    /\ pipeline = "fact"
    /\ pc = "Planning"
    /\ ret = NoReturn
    /\ tasks = <<>>
    /\ totalTasks = 0
    /\ nextChunk = 0
    /\ inflight = {}
    /\ dbBuffer = <<>>
    /\ currentBatchSizeByte = 0
    /\ gcCounter = 0
    /\ completedCount = 0
    /\ skippedCount = 0
    /\ stats = <<>>
    /\ lastResult = <<>>
    /\ hist = HistInit([fact |-> NoRun, sub |-> NoRun])

\* what is recorded of a pipeline run that returns (first execution only)
FirstRun(h, p, clean, planned, rows) ==
    IF run = "first"
    THEN [h EXCEPT !.first[p] = [seen |-> TRUE, clean |-> clean, planned |-> planned, store |-> rows]]
    ELSE h

\* a commit attempt as the history records it: the batch handed to executemany,
\* how many records had been appended and how many tasks were still to be
\* consumed at that point, and whether the table differs once the attempt is over
Attempt(kind, ok, batch, h, before, after) ==
    [kind |-> kind, ok |-> ok, batch |-> batch, upto |-> Len(h.offered),
     left |-> Len(tasks) - Cardinality(h.consumed), wrote |-> after # before]

\* the existing-keys read degrading to an empty skip-set on every failure
ExistingKeysDegrade(p, db) ==
    IF db = "ok" THEN [raised |-> FALSE, keys |-> DOMAIN store[p]]
    ELSE [raised |-> FALSE, keys |-> {}]

\* the existing-keys read: completeCiks, or the exception that leaves the function
ExistingKeys(p, db) ==
    IF db = "ok" THEN [raised |-> FALSE, keys |-> DOMAIN store[p]]
    ELSE IF p = "sub" /\ db = "queryError" THEN [raised |-> FALSE, keys |-> {}]
    ELSE [raised |-> TRUE, keys |-> {}]

\* the writer connection: fetchFactBulkData opens it once the tasks are built (a
\* second pyodbc.connect, which may raise); fetchSubmissionsBulkData writes on
\* the connection it read the existing keys with
WriterConnects(p) == IF p = "fact" THEN {"ok", "connectError"} ELSE {"ok"}

\* Both functions from their first line to the start of the chunk loop.
Plan ==
    /\ pc = "Planning"
    /\ \E listing \in Listings(dirs[pipeline]), db \in {"ok", "connectError", "queryError"},
          writer \in WriterConnects(pipeline) :
        LET existing == ExistingKeys(pipeline, db)
            ts == PlanTasks(pipeline, listing, existing.keys)
            total == PlanTotal(pipeline, ts)
            h == [HistInit(hist.first) EXCEPT !.planDb = db, !.before = store[pipeline]]
        IN  IF existing.raised
            THEN /\ pc' = "Crashed"
                 /\ hist' = [h EXCEPT !.crash = [cause |-> "db", task |-> 0]]
                 /\ ret' = NoReturn
                 /\ tasks' = <<>>
                 /\ totalTasks' = 0
            ELSE /\ tasks' = ts
                 /\ totalTasks' = total
                 /\ ret' = NoReturn
                 /\ IF total = 0
                    THEN /\ pc' = "Done"        \* a bare return
                         /\ hist' = FirstRun(h, pipeline, TRUE, 0, store[pipeline])
                    ELSE IF writer = "connectError"
                    THEN /\ pc' = "Crashed"     \* the tasks are built, the connect raises
                         /\ hist' = [h EXCEPT !.crash = [cause |-> "db", task |-> 0]]
                    ELSE /\ pc' = "Running"
                         /\ hist' = h
    /\ txn' = EmptyRows
    /\ nextChunk' = 0
    /\ inflight' = {}
    /\ dbBuffer' = <<>>
    /\ currentBatchSizeByte' = 0
    /\ gcCounter' = 0
    /\ completedCount' = 0
    /\ skippedCount' = 0
    /\ stats' = <<>>
    /\ UNCHANGED <<dirs, store, run, pipeline, lastResult>>

\* the next chunk submitted while futures of the last one are pending
NoBarrier(pending) == TRUE

\* `for future in as_completed(futures)` runs to its end, and the `with` block of
\* the pool is left, before the chunk loop takes its next step
ChunkBarrier(pending) == pending = {}

\* tasks[i: i + CHUNK], as task indices
CurrentTaskChunk(p, i) == {k \in 1..Len(tasks) : i < k /\ k <= i + TaskChunkSize(p)}

\* for i in range(0, len(tasks), CHUNK): currentTaskChunk = tasks[i: i + CHUNK];
\* every task of the chunk is submitted to a new pool
SubmitChunk ==
    /\ pc = "Running"
    /\ ChunkBarrier(inflight)
    /\ nextChunk < Len(tasks)
    /\ inflight' = inflight \cup CurrentTaskChunk(pipeline, nextChunk)
    /\ nextChunk' = nextChunk + TaskChunkSize(pipeline)
    /\ hist' = [hist EXCEPT !.submitted = @ \o SortIds(CurrentTaskChunk(pipeline, nextChunk))]
    /\ UNCHANGED <<dirs, store, txn, run, pipeline, pc, ret, tasks, totalTasks, dbBuffer,
                   currentBatchSizeByte, gcCounter, completedCount, skippedCount, stats,
                   lastResult>>

\* the chunk loop ends
ExhaustChunks ==
    /\ pc = "Running"
    /\ inflight = {}
    /\ nextChunk >= Len(tasks)
    /\ pc' = "Draining"
    /\ UNCHANGED <<dirs, store, txn, run, pipeline, ret, tasks, totalTasks, nextChunk, inflight,
                   dbBuffer, currentBatchSizeByte, gcCounter, completedCount, skippedCount,
                   stats, lastResult, hist>>

\* future.result() of task t
WorkerResult(p, t) ==
    IF p = "fact" THEN prepareFactData(tasks[t], dirs[p][tasks[t]])
    ELSE prepareSubmissionData(tasks[t].cik, tasks[t], dirs[p])

\* the tuple unpacking of the loop head
UnpackFails(p, result) == Len(result) # (IF p = "fact" THEN 3 ELSE 4)

\* the count test off by one
IsCountLimitStrict(p, buffer) == Len(buffer) > batchCountLimit(p)

IsCountLimit(p, buffer) == Len(buffer) >= batchCountLimit(p)
IsSizeLimit(p, size) == size >= batchSizeLimit(p)

\* gcCounter after a successful threshold flush, and whether gc.collect() ran
GcStep(p, counter) ==
    LET c1 == counter + 1
        collect == c1 >= GCINTERVAL(p)
        c2 == IF collect THEN 0 ELSE c1
    IN  [counter |-> IF p = "fact" THEN c2 + 1 ELSE c2, collected |-> collect]

\* the buffer not cleared after a commit
BufferKept(buffer) == buffer

\* dbBuffer.clear() after a successful commit
BufferAfterCommit(buffer) == <<>>

\* the buffer cleared in the except branch
BufferDropped(buffer) == <<>>

\* the except branch of a threshold flush leaves dbBuffer as it is
BufferAfterRollback(buffer) == buffer

\* the except branch of a threshold flush re-raising
FailedCommitAborts(at) == "Crashed"

\* `except Exception as e:` of a threshold flush: the loop goes on
AfterFailedCommit(at) == at

Sample(completed) == [completed |-> completed, remaining |-> totalTasks - completed]

\* a flush that records nothing
NoSample(series, completed) == series

\* statsTimeStamps.append(elapsed) ... statsCtxSwitches.append(ctxRate)
AppendSample(series, completed) == Append(series, Sample(completed))

Crash(cause, t) ==
    /\ pc' = "Crashed"
    /\ hist' = [hist EXCEPT !.crash = [cause |-> cause, task |-> t]]

\* One iteration of `for future in as_completed(futures)`: any submitted task may
\* be the next to complete.
Consume(t) ==
    /\ pc = "Running"
    /\ t \in inflight
    /\ LET p == pipeline
           result == WorkerResult(p, t)
       IN
       IF UnpackFails(p, result)
       THEN /\ Crash("unpack", t)              \* ValueError: not enough values to unpack
            /\ UNCHANGED <<store, txn, inflight, dbBuffer, currentBatchSizeByte, gcCounter,
                           completedCount, skippedCount, stats>>
       ELSE
       LET cik == result[1]
           jsonData == result[2]
           error == result[3]
           done1 == IF p = "sub" THEN completedCount + result[4] ELSE completedCount
           h1 == [hist EXCEPT !.consumed = @ \cup {t}]
       IN
       IF Truthy(error)
       THEN /\ skippedCount' = skippedCount + 1
            /\ completedCount' = done1
            /\ inflight' = inflight \ {t}
            /\ hist' = h1
            /\ UNCHANGED <<store, txn, pc, dbBuffer, currentBatchSizeByte, gcCounter, stats>>
       ELSE IF jsonData = NoData
       THEN /\ Crash("len", t)                 \* TypeError: len(None)
            /\ completedCount' = done1
            /\ UNCHANGED <<store, txn, inflight, dbBuffer, currentBatchSizeByte, gcCounter,
                           skippedCount, stats>>
       ELSE
       LET buf1 == Append(dbBuffer, <<cik, jsonData>>)
           size1 == currentBatchSizeByte + Len(jsonData)
           isCountLimit == IsCountLimit(p, buf1)
           isSizeLimit == IsSizeLimit(p, size1)
           done2 == IF p = "fact" THEN done1 + 1 ELSE done1
           h2 == [h1 EXCEPT !.offered = Append(@, [task |-> t, rec |-> <<cik, jsonData>>]),
                            !.sizeHit = @ \/ isSizeLimit]
       IN
       /\ completedCount' = done2
       /\ inflight' = inflight \ {t}
       /\ UNCHANGED skippedCount
       /\ IF isCountLimit \/ isSizeLimit
          THEN \E o \in CommitOutcomes(buf1) :
                LET db == CommitAttempt(store[p], txn, buf1, o)
                    after == IF o.ok THEN db.committed ELSE Rollback(db).committed
                    a == Attempt("threshold", o.ok, buf1, h2, store[p], after)
                IN  IF o.ok
                    THEN /\ store' = [store EXCEPT ![p] = db.committed]
                         /\ txn' = db.pending
                         /\ pc' = pc
                         /\ dbBuffer' = BufferAfterCommit(buf1)
                         /\ currentBatchSizeByte' = 0
                         /\ gcCounter' = GcStep(p, gcCounter).counter
                         /\ stats' = AppendSample(stats, done2)
                         /\ hist' = [h2 EXCEPT !.attempts = Append(@, a),
                                               !.lastRows = o.rows,
                                               !.drained = Len(h2.offered),
                                               !.gc = Append(@, GcStep(p, gcCounter).collected)]
                    ELSE /\ store' = [store EXCEPT ![p] = Rollback(db).committed]
                         /\ txn' = Rollback(db).pending
                         /\ pc' = AfterFailedCommit(pc)
                         /\ dbBuffer' = BufferAfterRollback(buf1)
                         /\ currentBatchSizeByte' = size1
                         /\ hist' = [h2 EXCEPT !.attempts = Append(@, a), !.lastRows = o.rows]
                         /\ UNCHANGED <<gcCounter, stats>>
          ELSE /\ dbBuffer' = buf1
               /\ currentBatchSizeByte' = size1
               /\ hist' = h2
               /\ UNCHANGED <<store, txn, pc, gcCounter, stats>>
    /\ lastResult' = WorkerResult(pipeline, t)
    /\ UNCHANGED <<dirs, run, pipeline, ret, tasks, totalTasks, nextChunk>>

\* the final batch forgotten
FinalBatchNever(buffer) == FALSE

\* if dbBuffer:
FinalBatch(buffer) == buffer # <<>>

\* `if dbBuffer:` to the return: the final batch, conn.close(), the result tuple
Drain ==
    /\ pc = "Draining"
    /\ LET p == pipeline IN
       \E o \in (IF FinalBatch(dbBuffer) THEN CommitOutcomes(dbBuffer) ELSE {[ok |-> TRUE, rows |-> 0]}) :
        LET db == IF FinalBatch(dbBuffer) THEN CommitAttempt(store[p], txn, dbBuffer, o)
                  ELSE [committed |-> store[p], pending |-> txn]
            closed == Rollback(db)
            a == Attempt("final", o.ok, dbBuffer, hist, store[p], closed.committed)
            h == IF FinalBatch(dbBuffer)
                 THEN [hist EXCEPT !.attempts = Append(@, a), !.lastRows = o.rows] ELSE hist
            clean == skippedCount = 0 /\ \A k \in 1..Len(h.attempts) : h.attempts[k].ok
        IN  /\ store' = [store EXCEPT ![p] = closed.committed]
            /\ txn' = closed.pending
            /\ hist' = FirstRun(h, p, clean, Len(tasks), closed.committed)
    /\ pc' = "Done"
    /\ ret' = [none |-> FALSE, stats |-> stats, total |-> totalTasks]
    /\ UNCHANGED <<dirs, run, pipeline, tasks, totalTasks, nextChunk, inflight, dbBuffer,
                   currentBatchSizeByte, gcCounter, completedCount, skippedCount, stats, lastResult>>

\* __main__ after a pipeline function has returned: the result is unpacked into
\* eight names and handed to generatePerformanceReport, which catches its own
\* exceptions; then the next pipeline, or the end of the process
MainContinue ==
    /\ pc = "Done"
    /\ IF ret.none
       THEN /\ Crash("mainUnpack", 0)           \* TypeError: cannot unpack None
            /\ UNCHANGED pipeline
       ELSE /\ hist' = hist
            /\ IF pipeline = "fact"
               THEN pipeline' = "sub" /\ pc' = "Planning"
               ELSE pipeline' = "sub" /\ pc' = "Completed"
    /\ UNCHANGED <<dirs, store, txn, run, ret, tasks, totalTasks, nextChunk, inflight, dbBuffer,
                   currentBatchSizeByte, gcCounter, completedCount, skippedCount, stats, lastResult>>

\* the process is started again on the same directories and tables
Restart ==
    /\ pc \in {"Completed", "Crashed"}
    /\ run = "first"
    /\ run' = "second"
    /\ pipeline' = "fact"
    /\ pc' = "Planning"
    /\ UNCHANGED <<dirs, store, txn, ret, tasks, totalTasks, nextChunk, inflight, dbBuffer,
                   currentBatchSizeByte, gcCounter, completedCount, skippedCount, stats,
                   lastResult, hist>>

ConsumeNext == \E t \in inflight : Consume(t)

Next ==
    \/ Plan
    \/ SubmitChunk
    \/ ConsumeNext
    \/ ExhaustChunks
    \/ Drain
    \/ MainContinue
    \/ Restart

Spec == Init /\ [][Next]_vars

\* the directories the runs are followed to their end on
FactDirsLive == DirsOf(FA :> {FactOk, FactBig} @@ FB :> {FactOk, FactCorrupt} @@ FC :> {FactOk})
SubDirsLive == DirsOf(SA :> {SubOk} @@ SA1 :> {ChunkB} @@ SB :> {SubOk} @@ SC :> {SubOk, SubCorrupt})

EnvironmentsLive ==
    {[dirs |-> [fact |-> f, sub |-> OtherSubDir], store |-> [fact |-> EmptyRows, sub |-> EmptyRows]] :
        f \in FactDirsLive}
    \cup
    {[dirs |-> [fact |-> OtherFactDir, sub |-> s], store |-> [fact |-> EmptyRows, sub |-> EmptyRows]] :
        s \in SubDirsLive}

InitLive ==
    /\ \E e \in EnvironmentsLive : dirs = e.dirs /\ store = e.store
    /\ txn = EmptyRows
    /\ run = "first"
    /\ pipeline = "fact"
    /\ pc = "Planning"
    /\ ret = NoReturn
    /\ tasks = <<>>
    /\ totalTasks = 0
    /\ nextChunk = 0
    /\ inflight = {}
    /\ dbBuffer = <<>>
    /\ currentBatchSizeByte = 0
    /\ gcCounter = 0
    /\ completedCount = 0
    /\ skippedCount = 0
    /\ stats = <<>>
    /\ lastResult = <<>>
    /\ hist = HistInit([fact |-> NoRun, sub |-> NoRun])

\* The control thread is sequential code and every worker returns: a step of the
\* chunk loop, of the loop over the completed futures, and of the code after the
\* loops that stays possible is taken.  Nothing obliges the process to be started
\* again, and __main__ is not needed for a pipeline function to return.
SpecLive ==
    /\ InitLive /\ [][Next]_vars
    /\ WF_vars(SubmitChunk) /\ WF_vars(ConsumeNext) /\ WF_vars(ExhaustChunks) /\ WF_vars(Drain)

-----------------------------------------------------------------------------
(* The Transformer alone: prepareSubmissionData applied to one task, for     *)
(* every directory of MergeDirs and every order in which the task can list  *)
(* its chunk files.                                                         *)

SA3 == <<"CIK", "0000000001", "-submissions-", "003", ".json">>

MergePrimary ==
    File(None, TRUE,
         SubDoc({"cik", "filings"}, {"recent", "files"}, <<<<"form", <<"a">>>>, <<"date", <<"d">>>>>>),
         <<>>)
\* a chunk with a field the primary lacks and a value that is no list
ChunkMixed ==
    File(None, TRUE,
         ChunkDoc(<<<<"date", TRUE, <<"e">>>>, <<"extra", TRUE, <<"x">>>>, <<"form", FALSE, <<"s">>>>>>),
         <<>>)

MergeDirs ==
    {d \in DirsOf(SA :> {MergePrimary, SubEmptyRecent, SubNoRecent}
                  @@ SA1 :> {ChunkB, ChunkMixed, ChunkCorrupt}
                  @@ SA2 :> {ChunkC, ChunkMixed, ChunkCorrupt}
                  @@ SA3 :> {ChunkB, ChunkMixed}) : SA \in DOMAIN d}

InitMerge ==
    /\ \E d \in MergeDirs :
        /\ dirs = [fact |-> EmptyRows, sub |-> d]
        /\ \E chunks \in Perms(DOMAIN d \ {SA}) :
            tasks = <<[cik |-> CikGroup1(SA), main |-> SA, chunks |-> chunks, n |-> 1 + Len(chunks)]>>
    /\ store = [fact |-> EmptyRows, sub |-> EmptyRows]
    /\ txn = EmptyRows
    /\ run = "first"
    /\ pipeline = "sub"
    /\ pc = "Submitted"
    /\ ret = NoReturn
    /\ totalTasks = PlanTotal("sub", tasks)
    /\ nextChunk = 0
    /\ inflight = {1}
    /\ dbBuffer = <<>>
    /\ currentBatchSizeByte = 0
    /\ gcCounter = 0
    /\ completedCount = 0
    /\ skippedCount = 0
    /\ stats = <<>>
    /\ lastResult = <<>>
    /\ hist = HistInit([fact |-> NoRun, sub |-> NoRun])

\* the worker runs prepareSubmissionData on the task and returns
Transform ==
    /\ pc = "Submitted"
    /\ pc' = "Transformed"
    /\ lastResult' = WorkerResult("sub", 1)
    /\ UNCHANGED <<dirs, store, txn, run, pipeline, ret, tasks, totalTasks, nextChunk, inflight,
                   dbBuffer, currentBatchSizeByte, gcCounter, completedCount, skippedCount,
                   stats, hist>>

NextMerge == Transform

SpecMerge == InitMerge /\ [][NextMerge]_vars

-----------------------------------------------------------------------------
(* What the claims speak of *)

TaskIds == 1..Len(tasks)

\* the primary document of task t
Primary(p, t) == IF p = "fact" THEN dirs[p][tasks[t]] ELSE dirs[p][tasks[t].main]

\* the primary cannot be parsed or lacks the required top-level fields
MalformedPrimary(p, t) ==
    LET c == Primary(p, t) IN
    /\ c.err = None
    /\ \/ ~c.decodes
       \/ IF p = "fact" THEN FactInvalidStructure(c.doc) ELSE SubInvalidStructure(c.doc)

\* the primary and every chunk of task t can be read and parsed, and the primary
\* has the required fields
WellFormed(p, t) ==
    LET c == Primary(p, t) IN
    /\ c.err = None /\ c.decodes
    /\ IF p = "fact" THEN ~FactInvalidStructure(c.doc)
       ELSE /\ ~SubInvalidStructure(c.doc)
            /\ \A k \in 1..Len(tasks[t].chunks) : ~ChunkFails(dirs[p][tasks[t].chunks[k]])

Records(offered) == [k \in 1..Len(offered) |-> offered[k].rec]
Batches(attempts) == [k \in 1..Len(attempts) |-> attempts[k].batch]
AllCommitsOk == \A k \in 1..Len(hist.attempts) : hist.attempts[k].ok
Returned == pc = "Done" /\ ~ret.none
InStore(p, rec) == rec[1] \in DOMAIN store[p] /\ store[p][rec[1]] = rec[2]

\* C1: error isolation.  A task whose primary is malformed never stops the run,
\* and a run whose tasks are all either well-formed or malformed in their primary
\* returns having consumed every lastResult, with as many successes as well-formed
\* tasks and as many skips as malformed ones; when every commit succeeded the
\* record of every well-formed task is in the store.
C1_ErrorIsolation ==
    /\ hist.crash.cause \in {"unpack", "len"} => ~MalformedPrimary(pipeline, hist.crash.task)
    /\ (Returned /\ \A t \in TaskIds : WellFormed(pipeline, t) \/ MalformedPrimary(pipeline, t))
        => /\ hist.consumed = TaskIds
           /\ Len(hist.offered) = Cardinality({t \in TaskIds : WellFormed(pipeline, t)})
           /\ skippedCount = Cardinality({t \in TaskIds : MalformedPrimary(pipeline, t)})
           /\ AllCommitsOk => \A k \in 1..Len(hist.offered) : InStore(pipeline, hist.offered[k].rec)

\* C2: when a run in which every commit attempt succeeded has returned, the
\* batches of its commits, one after the other, are exactly the successful
\* records in the order they were appended (each record in one commit, none in
\* two, none in none), and every record's key is a row of the table.
C2_NoSilentDrop ==
    (Returned /\ AllCommitsOk)
        => /\ Flatten(Batches(hist.attempts)) = Records(hist.offered)
           /\ \A k \in 1..Len(hist.offered) : hist.offered[k].rec[1] \in DOMAIN store[pipeline]

\* a returned run with a threshold commit and a final commit, all successful
C2_Witness ==
    /\ Returned /\ AllCommitsOk
    /\ \E j, k \in 1..Len(hist.attempts) :
        hist.attempts[j].kind = "threshold" /\ hist.attempts[k].kind = "final"

FailedThreshold(k) == hist.attempts[k].kind = "threshold" /\ ~hist.attempts[k].ok

\* the records appended after attempt k, up to record `to`
OfferedAfter(k, to) == SubSeq(Records(hist.offered), hist.attempts[k].upto + 1, to)

\* C3: after a failed threshold commit the batch's records are gone
\* from the window; the window and the next attempt's batch hold only the records
\* appended since.
C3_DiscardedAfterFailure ==
    \A k \in 1..Len(hist.attempts) :
        FailedThreshold(k) =>
            IF k = Len(hist.attempts)
            THEN pc = "Running" => dbBuffer = OfferedAfter(k, Len(hist.offered))
            ELSE hist.attempts[k + 1].batch = OfferedAfter(k, hist.attempts[k + 1].upto)

\* C4: commit atomicity.  Once a failed commit attempt has been handled
\* (rollback after a threshold flush, close after the final batch) the table is
\* what it was before the attempt.
C4_CommitAtomicity ==
    \A k \in 1..Len(hist.attempts) : ~hist.attempts[k].ok => ~hist.attempts[k].wrote

\* a threshold attempt and a final attempt that both failed, the last one after
\* some of its MERGE statements had run
C4_Witness ==
    /\ \E k \in 1..Len(hist.attempts) : FailedThreshold(k)
    /\ hist.attempts # <<>>
    /\ Last(hist.attempts).kind = "final" /\ ~Last(hist.attempts).ok
    /\ hist.lastRows >= 1 /\ hist.lastRows < Len(Last(hist.attempts).batch)

\* the pipeline has been planned in the second execution, after a first run of it
\* in which every task succeeded and every commit succeeded
PlannedAgain ==
    /\ run = "second"
    /\ pc \in {"Running", "Draining", "Done"}
    /\ hist.first[pipeline].seen /\ hist.first[pipeline].clean

\* C5: idempotence.  The second run plans zero tasks and leaves the table as the
\* first run left it.
C5_Idempotence ==
    PlannedAgain => tasks = <<>> /\ store[pipeline] = hist.first[pipeline].store

\* the keys of the source that have a primary document
SourceKeys(p) ==
    IF p = "fact" THEN {FactCik(f) : f \in {g \in DOMAIN dirs[p] : EndsWithJson(g)}}
    ELSE {CikGroup1(f) : f \in {g \in DOMAIN dirs[p] :
                EndsWithJson(g) /\ CikPatternMatch(g) /\ ~HasSubmissionsMarker(g)}}

TaskKey(p, t) == IF p = "fact" THEN FactCik(tasks[t]) ELSE tasks[t].cik

\* planning is over and nothing has been submitted or written yet
JustPlanned ==
    \/ pc = "Running" /\ nextChunk = 0 /\ inflight = {}
    \/ pc = "Done" /\ ret.none

\* C6: dedup.  With N source keys of which M < N are rows of the table (and the
\* existing keys read), exactly N - M tasks are planned, none with a key that is
\* a row of the table.
C6_Dedup ==
    (JustPlanned /\ hist.planDb = "ok")
        => LET N == Cardinality(SourceKeys(pipeline))
               M == Cardinality(SourceKeys(pipeline) \cap DOMAIN store[pipeline])
           IN  /\ M < N => Len(tasks) = N - M
               /\ \A t \in TaskIds : TaskKey(pipeline, t) \notin DOMAIN store[pipeline]

\* the number of records appended when the buffer was last cleared before record j
DrainsBefore(j) ==
    {0} \cup {hist.attempts[k].upto : k \in {i \in 1..Len(hist.attempts) :
                hist.attempts[i].kind = "threshold" /\ hist.attempts[i].ok
                /\ hist.attempts[i].upto < j}}
LastDrainBefore(j) == CHOOSE d \in DrainsBefore(j) : \A e \in DrainsBefore(j) : e <= d

\* C7: threshold flush.  Whenever a record is the CountLimit-th appended since
\* the buffer was last cleared, a commit was attempted when it was the last
\* record appended, with exactly those CountLimit records as its batch.
C7_ThresholdFlush ==
    \A j \in 1..Len(hist.offered) :
        j - LastDrainBefore(j) = batchCountLimit(pipeline)
            => \E k \in 1..Len(hist.attempts) :
                /\ hist.attempts[k].kind = "threshold"
                /\ hist.attempts[k].upto = j
                /\ hist.attempts[k].batch = SubSeq(Records(hist.offered), LastDrainBefore(j) + 1, j)

\* a second window filled to the count limit and handed to a commit, the size
\* limit never reached
C7_Witness ==
    /\ ~hist.sizeHit
    /\ \E k \in 1..Len(hist.attempts) :
        /\ hist.attempts[k].kind = "threshold"
        /\ Len(hist.attempts[k].batch) = batchCountLimit(pipeline)
        /\ hist.attempts[k].upto = 2 * batchCountLimit(pipeline)

\* C8: partial batch drained at end.  A returned run with fewer successful
\* records than the count limit (at least one, the size limit never reached)
\* made exactly one commit attempt, the final one, after every task was consumed,
\* with all its records; a run that ends with an empty window made no final
\* attempt.
C8_PartialBatch ==
    Returned =>
        /\ (0 < Len(hist.offered) /\ Len(hist.offered) < batchCountLimit(pipeline) /\ ~hist.sizeHit)
            => /\ Len(hist.attempts) = 1
               /\ hist.attempts[1].kind = "final"
               /\ hist.attempts[1].left = 0
               /\ hist.attempts[1].batch = Records(hist.offered)
        /\ dbBuffer = <<>> => \A k \in 1..Len(hist.attempts) : hist.attempts[k].kind # "final"

\* a run of two chunks with one successful record, committed at the end
C8_Witness ==
    /\ Returned /\ ~hist.sizeHit
    /\ Len(tasks) > TaskChunkSize(pipeline)
    /\ Len(hist.offered) = 1 /\ Len(hist.attempts) = 1 /\ hist.attempts[1].ok

\* no task of the run makes the loop head or len(jsonData) raise
NoTaskAborts ==
    \A t \in TaskIds :
        LET r == WorkerResult(pipeline, t) IN
        ~UnpackFails(pipeline, r) /\ (Truthy(r[3]) \/ r[2] # NoData)

\* C11: a commit failure never aborts the run.  Whatever the commit attempts of
\* a run do (each may succeed or fail, after any number of rows), a run that has
\* entered the chunk loop, and none of whose tasks makes the orchestrator raise,
\* eventually returns, with the result of every task consumed.
C11_CommitFailureNeverAborts ==
    (pc = "Running" /\ NoTaskAborts) ~> (Returned /\ hist.consumed = TaskIds)

\* a returned run whose threshold commit failed with tasks still to consume and
\* whose final commit failed too
C11_Witness ==
    /\ Returned /\ hist.consumed = TaskIds
    /\ \E k \in 1..Len(hist.attempts) : FailedThreshold(k) /\ hist.attempts[k].left > 0
    /\ Last(hist.attempts).kind = "final" /\ ~Last(hist.attempts).ok

\* C12: handling a Skipped outcome changes the skip counter only.  A step of the
\* loop that counts a skip leaves the batch window, the running size and the
\* progress counter (completedCount / completedFilesCount) as they were.
C12_SkipChangesSkipCounterOnly ==
    [][(pc = "Running" /\ skippedCount' = skippedCount + 1)
        => UNCHANGED <<dbBuffer, currentBatchSizeByte, completedCount>>]_vars

OkAttempts(kind) ==
    {k \in 1..Len(hist.attempts) : hist.attempts[k].kind = kind /\ hist.attempts[k].ok}

\* C13 as stated: at Done the series has one sample per successful commit, the
\* final commit included.
C13_SamplePerCommit ==
    Returned => Len(ret.stats) = Cardinality(OkAttempts("threshold")) + Cardinality(OkAttempts("final"))

\* C13 amended: the series has one sample per successful threshold flush, at
\* every point of the run and in what the run returns; a failed commit and the
\* final commit, successful or not, add none.
C13_SamplePerThresholdFlush ==
    /\ pc \in {"Running", "Draining", "Done"} /\ ~(pc = "Done" /\ ret.none)
        => Len(stats) = Cardinality(OkAttempts("threshold"))
    /\ Returned => ret.stats = stats

\* a returned run with a successful and a failed threshold flush and a
\* successful final commit
C13_Witness ==
    /\ Returned
    /\ OkAttempts("threshold") # {} /\ OkAttempts("final") # {}
    /\ \E k \in 1..Len(hist.attempts) : FailedThreshold(k)

\* C14: the reclamation pass has period GCINTERVAL.  Of the successful threshold
\* flushes of a run, gc.collect() runs on the GCINTERVAL-th, the
\* 2*GCINTERVAL-th, ... and on no other.
C14_GcEveryInterval ==
    pc \in {"Running", "Draining", "Done"}
        => \A k \in 1..Len(hist.gc) : hist.gc[k] <=> (k % GCINTERVAL(pipeline) = 0)

\* the chunk of the task list that task t is in (0-based)
ChunkOf(t) == (t - 1) \div TaskChunkSize(pipeline)

\* C15: chunk barrier.  At most a chunk of tasks is submitted and not yet
\* consumed; a task is submitted only when the result of every task of the
\* earlier chunks has been consumed; no task is submitted twice, and once the
\* chunk loop has ended every planned task has been submitted.
C15_ChunkBarrier ==
    pc \in {"Running", "Draining", "Done"} =>
        /\ Cardinality(inflight) <= TaskChunkSize(pipeline)
        /\ \A a, b \in 1..Len(hist.submitted) : hist.submitted[a] = hist.submitted[b] => a = b
        /\ \A t \in Range(hist.submitted) :
            \A u \in TaskIds : ChunkOf(u) < ChunkOf(t) => u \in hist.consumed
        /\ inflight = Range(hist.submitted) \ hist.consumed
        /\ (pc = "Draining" \/ Returned) => Range(hist.submitted) = TaskIds

\* the second chunk of a run of two full chunks has just been submitted
C15_Witness ==
    /\ pc = "Running"
    /\ Len(tasks) = 2 * TaskChunkSize(pipeline)
    /\ Len(hist.submitted) = Len(tasks)
    /\ Cardinality(inflight) = TaskChunkSize(pipeline)
    /\ Cardinality(hist.consumed) = TaskChunkSize(pipeline)

DistinctKeys == \A t, u \in TaskIds : TaskKey(pipeline, t) = TaskKey(pipeline, u) => t = u

\* the tasks whose Transformer result is a payload
SuccessTasks ==
    {t \in TaskIds : LET r == WorkerResult(pipeline, t) IN ~Truthy(r[3]) /\ r[2] # NoData}

\* the table the run was planned on, with the payload of every successful task
\* under its key: a function of the task list and of the Transformer results only
ExpectedStore ==
    LET keys == {TaskKey(pipeline, t) : t \in SuccessTasks} IN
    [k \in DOMAIN hist.before \cup keys |->
        IF k \in keys
        THEN WorkerResult(pipeline, CHOOSE t \in SuccessTasks : TaskKey(pipeline, t) = k)[2]
        ELSE hist.before[k]]

\* C16: completion order is immaterial for the final store.  For a task list
\* with distinct keys, a run in which every commit succeeded ends, whatever the
\* order in which the workers of each chunk completed, with the same table: the
\* one it started from with every successful task's payload under its key.
C16_OrderImmaterial ==
    (Returned /\ AllCommitsOk /\ DistinctKeys) => store[pipeline] = ExpectedStore

\* a returned run of three successful records in which a later task completed
\* before an earlier one, committed in two batches
C16_Witness ==
    /\ Returned /\ AllCommitsOk /\ DistinctKeys
    /\ Len(hist.offered) >= 3 /\ Len(hist.attempts) >= 2
    /\ hist.offered[1].task > hist.offered[2].task

\* C17: one outcome per invocation, Success or Skipped.  Taking a Transformer
\* result never makes the orchestrator raise; every result taken is either
\* appended to the window or counted as skipped; and no appended record has a
\* null payload.
C17_OneOutcome ==
    /\ hist.crash.cause \notin {"len", "unpack"}
    /\ \A k \in 1..Len(hist.offered) : hist.offered[k].rec[2] # NoData
    /\ pc \in {"Running", "Draining"} => Cardinality(hist.consumed) = Len(hist.offered) + skippedCount

\* the existing-keys read of the pipeline's current run failed
PlanFailed == pc # "Planning" /\ hist.planDb \in {"connectError", "queryError"}
TaskKeys == {TaskKey(pipeline, t) : t \in TaskIds}

\* C18 as stated: in both pipelines a failed existing-keys read (connect or
\* query) does not abort the run, and every source key is planned.
C18_PlanningErrorDegrades ==
    PlanFailed => hist.crash.cause # "db" /\ TaskKeys = SourceKeys(pipeline)

\* C18 amended: when the query fails in the submission pipeline the run goes on
\* and plans every source key, one task each, rows of the table included; when
\* connecting fails, and on either failure in the fact pipeline, the exception
\* leaves the function and no task is planned.
C18_PlanningErrorAsCoded ==
    PlanFailed =>
        IF pipeline = "sub" /\ hist.planDb = "queryError"
        THEN /\ hist.crash.cause # "db"
             /\ TaskKeys = SourceKeys("sub") /\ Len(tasks) = Cardinality(SourceKeys("sub"))
        ELSE /\ hist.crash.cause = "db"
             /\ pc = "Crashed"
             /\ tasks = <<>>

\* the submission pipeline running after a failed query, with a task for a key
\* that is a row of the table
C18_Witness ==
    /\ PlanFailed /\ pipeline = "sub" /\ pc = "Running"
    /\ TaskKeys \cap DOMAIN store["sub"] # {}
    /\ Len(tasks) >= 2

\* C20: keys are unique within a run's task list.  In both pipelines no two
\* planned tasks carry the same key, and every task of the submission pipeline
\* has a primary file of the source directory.
C20_UniqueKeys ==
    pc \in {"Running", "Draining", "Done"} =>
        /\ DistinctKeys
        /\ pipeline = "sub" =>
                \A t \in TaskIds : tasks[t].main # NoFile /\ tasks[t].main \in DOMAIN dirs["sub"]

\* C21: bounded window.  The batch window never holds more than CountLimit
\* records, failed commits or not; and after a failed threshold commit the next
\* threshold attempt comes only when CountLimit more records have been appended
\* (the size limit aside), not on the next record.
C21_BoundedWindow ==
    /\ Len(dbBuffer) <= batchCountLimit(pipeline)
    /\ ~hist.sizeHit =>
            \A k \in 1..(Len(hist.attempts) - 1) :
                (FailedThreshold(k) /\ hist.attempts[k + 1].kind = "threshold")
                    => hist.attempts[k + 1].upto >= hist.attempts[k].upto + batchCountLimit(pipeline)

FinalFailed ==
    \E k \in 1..Len(hist.attempts) : hist.attempts[k].kind = "final" /\ ~hist.attempts[k].ok

\* C22: loss only at the final flush.  Whatever the commit attempts of a run
\* did, when the run has returned and its final commit attempt did not fail,
\* every successful record's key is a row of the table, with the record's
\* payload when the keys of the task list are distinct.
C22_LossOnlyAtFinalFlush ==
    (Returned /\ ~FinalFailed) =>
        \A k \in 1..Len(hist.offered) :
            /\ hist.offered[k].rec[1] \in DOMAIN store[pipeline]
            /\ DistinctKeys => InStore(pipeline, hist.offered[k].rec)

\* a returned run whose threshold commits all failed and whose final commit
\* succeeded, on a table that had none of the keys
C22_Witness ==
    /\ Returned /\ ~FinalFailed /\ DistinctKeys
    /\ Len(hist.offered) >= 3
    /\ \E k \in 1..Len(hist.attempts) : FailedThreshold(k)
    /\ OkAttempts("threshold") = {} /\ OkAttempts("final") # {}
    /\ DOMAIN hist.before = {}

\* C10: zero-task run.  A run that plans no task returns its counts and its
\* (empty) series, and the entry point goes on.
C10_ZeroTaskReturnsResult ==
    /\ (pc = "Done" /\ totalTasks = 0) => ~ret.none
    /\ hist.crash.cause # "mainUnpack"

\* the list-valued entries of a chunk document for a field
ChunkLists(items, name) ==
    Flatten([j \in 1..Len(items) |-> IF items[j][1] = name /\ items[j][2] THEN items[j][3] ELSE <<>>])

\* filings.recent as the claim describes it: the primary's fields, each with the
\* primary's list followed by the chunks' lists for it in file-name order
ExpectedRecent ==
    LET primary == dirs["sub"][tasks[1].main].doc.recent
        files == SortNames(Range(tasks[1].chunks))
    IN  [k \in 1..Len(primary) |->
            <<primary[k][1],
              primary[k][2] \o Flatten([j \in 1..Len(files) |->
                                ChunkLists(dirs["sub"][files[j]].doc.items, primary[k][1])])>>]

\* C19: merge result.  For a primary with filings.recent and chunks that all
\* parse, the Transformer returns a payload whose filings.recent has the
\* primary's fields and no other, each with the primary's list followed by the
\* list-valued chunk values for that field in sorted file-name order.
C19_MergeResult ==
    (pc = "Transformed" /\ WellFormed("sub", 1)) =>
        /\ MergeChunks(dirs["sub"][tasks[1].main].doc.recent, SortedChunks(tasks[1].chunks),
                       dirs["sub"], 1)[1] = ExpectedRecent
        /\ lastResult = <<tasks[1].cik, Dumps(dirs["sub"][tasks[1].main].doc, ExpectedRecent),
                          None, 1 + Len(tasks[1].chunks)>>

\* a merge of three chunks, one of them with a field the primary lacks and a
\* value that is no list
C19_Witness ==
    /\ pc = "Transformed" /\ WellFormed("sub", 1)
    /\ Len(tasks[1].chunks) = 3
    /\ \E a, b \in 1..3 : /\ dirs["sub"][tasks[1].chunks[a]] = ChunkMixed
                           /\ dirs["sub"][tasks[1].chunks[b]] = ChunkB
    /\ lastResult[3] = None

\* C9: deterministic merge.  What the Transformer returns for a task does not
\* depend on the order in which the task lists its chunk files: it is what it
\* returns for the same primary and the same set of chunk files listed in any
\* other order.
C9_DeterministicMerge ==
    pc = "Transformed" =>
        \A chunks \in Perms(Range(tasks[1].chunks)) :
            prepareSubmissionData(tasks[1].cik, [tasks[1] EXCEPT !.chunks = chunks], dirs["sub"])
                = lastResult

\* three chunks listed in descending order and merged into a payload
C9_Witness ==
    /\ pc = "Transformed"
    /\ tasks[1].chunks = <<SA3, SA2, SA1>>
    /\ Len(lastResult) = 4 /\ lastResult[3] = None
    /\ dirs["sub"][SA1] # dirs["sub"][SA3]

====
